---- MODULE Spec2Model ----
(***************************************************************************)
(* Model of zhen-ai-codereview: the pattern matcher and filesystem scanner *)
(* (local/scanner.py), the git change extractor (local/scanner.py) and the *)
(* review orchestrator with its report assembly (agent/reviewer.py).       *)
(*                                                                         *)
(* Text that the code inspects character by character (file names, path    *)
(* components, glob patterns) is a tuple of one-character strings.  Text   *)
(* that the code only tests for emptiness and passes on (file content,     *)
(* diffs, feedback, summaries) is a string, "" being the empty text, and   *)
(* None is Python's None.                                                  *)
(***************************************************************************)
EXTENDS Integers, Sequences, FiniteSets, TLC

VARIABLES
    config,     \* ReviewConfig of the run: include/exclude patterns, size cap
    world,      \* the run's inputs: command, arguments, filesystem, repository
    pc,         \* position of the run
    files,      \* the scanner's/extractor's output (files, changes, pr_info.files)
    to_review,  \* changes_to_review / files_to_review
    idx,        \* 1-based position of the review loop in to_review
    results,    \* list of ReviewResult
    reviewed,   \* counter reviewed
    skipped,    \* counter skipped
    summary,    \* summary (None until summarize_reviews returned)
    report,     \* the ReviewReport returned to the caller, None before
    calls,      \* log of the external calls made, in order
    progress,   \* number of progress.advance calls on the progress display
    error,      \* the exception that left the run, None if none
    console     \* what the command of main.py printed after the run, in order

vars == <<config, world, pc, files, to_review, idx, results, reviewed, skipped,
          summary, report, calls, progress, error, console>>

\* Python's None where a text is expected, and where an object is expected
None == "None"
NoneObj == [none |-> TRUE]

\* Python truthiness of an Optional[str]
Truthy(s) == s # None /\ s # ""

-----------------------------------------------------------------------------
(* Bounds of the model *)

MaxPatterns == 2
MaxFiles == 2
MaxItems == 3

-----------------------------------------------------------------------------
(* Text *)

S_py       == <<".", "p", "y">>
N_a_py     == <<"a">> \o S_py
N_b_py     == <<"b">> \o S_py
N_c_py     == <<"c">> \o S_py
N_d_py     == <<"d">> \o S_py
N_a_min_js == <<"a", ".", "m", "i", "n", ".", "j", "s">>
N_a_txt    == <<"a", ".", "t", "x", "t">>
N_dot_e_py == <<".", "e">> \o S_py
N_ab_py    == <<"a", "b">> \o S_py

P_py        == <<"*">> \o S_py
P_js        == <<"*", ".", "j", "s">>
P_ts        == <<"*", ".", "t", "s">>
P_jsx       == <<"*", ".", "j", "s", "x">>
P_tsx       == <<"*", ".", "t", "s", "x">>
P_java      == <<"*", ".", "j", "a", "v", "a">>
P_go        == <<"*", ".", "g", "o">>
P_rs        == <<"*", ".", "r", "s">>
P_cpp       == <<"*", ".", "c", "p", "p">>
P_c         == <<"*", ".", "c">>
P_rb        == <<"*", ".", "r", "b">>
P_php       == <<"*", ".", "p", "h", "p">>
P_swift     == <<"*", ".", "s", "w", "i", "f", "t">>
P_kt        == <<"*", ".", "k", "t">>
P_min_js    == <<"*", ".", "m", "i", "n", ".", "j", "s">>
P_bundle_js == <<"*", ".", "b", "u", "n", "d", "l", "e", ".", "j", "s">>
P_pkg_lock  == <<"p", "a", "c", "k", "a", "g", "e", "-", "l", "o", "c", "k",
                 ".", "j", "s", "o", "n">>
P_yarn_lock == <<"y", "a", "r", "n", ".", "l", "o", "c", "k">>
P_lock      == <<"*", ".", "l", "o", "c", "k">>
P_generated == <<"*", ".", "g", "e", "n", "e", "r", "a", "t", "e", "d", ".", "*">>
P_q_py      == <<"?">> \o S_py
P_empty     == <<>>

D_src          == <<"s", "r", "c">>
D_git          == <<".", "g", "i", "t">>
D_dist         == <<"d", "i", "s", "t">>
D_build        == <<"b", "u", "i", "l", "d">>
D_venv         == <<"v", "e", "n", "v">>
D_node_modules == <<"n", "o", "d", "e", "_", "m", "o", "d", "u", "l", "e", "s">>
D_pycache      == <<"_", "_", "p", "y", "c", "a", "c", "h", "e", "_", "_">>
D_root         == <<"/">>
D_proj         == <<"p", "r", "o", "j">>

\* os.path.join of path components
RECURSIVE Join(_)
Join(parts) ==
    IF parts = <<>> THEN <<>>
    ELSE IF Len(parts) = 1 THEN parts[1]
    ELSE parts[1] \o <<"/">> \o Join(Tail(parts))

-----------------------------------------------------------------------------
(* config.py: ReviewConfig *)

max_file_size == 100000

include_patterns_default ==
    <<P_py, P_js, P_ts, P_jsx, P_tsx, P_java, P_go, P_rs, P_cpp, P_c,
      P_rb, P_php, P_swift, P_kt>>

exclude_patterns_default ==
    <<P_min_js, P_bundle_js, P_pkg_lock, P_yarn_lock, P_lock, P_generated>>

ReviewConfig ==
    [include_patterns |-> include_patterns_default,
     exclude_patterns |-> exclude_patterns_default,
     max_file_size    |-> max_file_size]

-----------------------------------------------------------------------------
(* Pattern matcher: LocalScanner._should_include *)

\* fnmatch.fnmatch on POSIX (no case folding), for patterns made of literal
\* characters, "*" (any run of characters, "/" and a leading "." included)
\* and "?" (any one character); the whole name must match.
RECURSIVE fnmatch(_, _)
fnmatch(name, pattern) ==
    IF pattern = <<>> THEN name = <<>>
    ELSE IF Head(pattern) = "*"
         THEN \/ fnmatch(name, Tail(pattern))
              \/ (name # <<>> /\ fnmatch(Tail(name), pattern))
    ELSE IF name = <<>> THEN FALSE
    ELSE IF Head(pattern) = "?" THEN fnmatch(Tail(name), Tail(pattern))
    ELSE Head(pattern) = Head(name) /\ fnmatch(Tail(name), Tail(pattern))

\* the second loop of _should_include: True at the first include pattern that
\* matches, False when the patterns are exhausted
RECURSIVE IncludeLoop(_, _, _)
IncludeLoop(filename, patterns, k) ==
    IF k > Len(patterns) THEN FALSE
    ELSE IF fnmatch(filename, patterns[k]) THEN TRUE
    ELSE IncludeLoop(filename, patterns, k + 1)

\* the first loop of _should_include: False at the first exclude pattern that
\* matches, else on to the include loop
RECURSIVE ExcludeLoop(_, _, _, _)
ExcludeLoop(filename, excl, incl, k) ==
    IF k > Len(excl) THEN IncludeLoop(filename, incl, 1)
    ELSE IF fnmatch(filename, excl[k]) THEN FALSE
    ELSE ExcludeLoop(filename, excl, incl, k + 1)

IncludeFirst(cfg, filename) ==
    IF IncludeLoop(filename, cfg.include_patterns, 1) THEN TRUE
    ELSE ExcludeLoop(filename, cfg.exclude_patterns, <<>>, 1)

_should_include(cfg, filename) ==
    ExcludeLoop(filename, cfg.exclude_patterns, cfg.include_patterns, 1)

-----------------------------------------------------------------------------
(* Filesystem scanner: LocalScanner._read_file, scan_files, scan_directory *)

\* what open(...).read() returns for a file of that size
ContentOf(size) == IF size = 0 THEN "" ELSE "code"

ReadFileCapInclusive(cfg, e, rel) ==
    IF ~e.readable THEN NoneObj
    ELSE IF e.size >= cfg.max_file_size THEN NoneObj
    ELSE IF ~e.isfile THEN NoneObj
    ELSE [path |-> <<e.dir, e.name>>, relative_path |-> rel,
          content |-> ContentOf(e.size), size |-> e.size]

\* e is a filesystem entry, rel its path relative to base_dir.  getsize raises
\* OSError for an entry that cannot be stat'ed, open raises OSError for one
\* that cannot be read or is a directory: both are caught and give None (NoneObj).
_read_file(cfg, e, rel) ==
    IF ~e.readable THEN NoneObj
    ELSE IF e.size > cfg.max_file_size THEN NoneObj
    ELSE IF ~e.isfile THEN NoneObj
    ELSE [path |-> <<e.dir, e.name>>, relative_path |-> rel,
          content |-> ContentOf(e.size), size |-> e.size]

\* scan_files over the paths of the entries, in order
RECURSIVE scan_files(_, _)
scan_files(cfg, entries) ==
    IF entries = <<>> THEN <<>>
    ELSE LET e == Head(entries)
             file_info == _read_file(cfg, e, e.name)
         IN (IF file_info # NoneObj THEN <<file_info>> ELSE <<>>)
            \o scan_files(cfg, Tail(entries))

denylist == {D_node_modules, D_venv, D_pycache, D_dist, D_build}

\* the test of scan_directory on Path(root).parts
SkippedRoot(parts) ==
    \E k \in 1..Len(parts) :
        \/ (parts[k] # <<>> /\ parts[k][1] = ".")
        \/ parts[k] \in denylist

\* scan_directory(directory, recursive=True): os.walk yields every directory
\* below (and including) the scan root with the names of its files; root is
\* the absolute path of that directory
RECURSIVE scan_directory_recursive(_, _, _)
scan_directory_recursive(cfg, root_parts, entries) ==
    IF entries = <<>> THEN <<>>
    ELSE LET e == Head(entries)
             rest == scan_directory_recursive(cfg, root_parts, Tail(entries))
         IN IF ~e.isfile THEN rest
            ELSE IF SkippedRoot(root_parts \o e.dir) THEN rest
            ELSE IF ~_should_include(cfg, e.name) THEN rest
            ELSE LET file_info == _read_file(cfg, e, Join(e.dir \o <<e.name>>))
                 IN (IF file_info # NoneObj THEN <<file_info>> ELSE <<>>) \o rest

\* scan_directory(directory, recursive=False): os.listdir yields the names of
\* the immediate children of the scan root
RECURSIVE scan_directory_flat(_, _)
scan_directory_flat(cfg, entries) ==
    IF entries = <<>> THEN <<>>
    ELSE LET e == Head(entries)
             rest == scan_directory_flat(cfg, Tail(entries))
         IN IF e.dir # <<>> THEN rest
            ELSE IF ~(e.isfile /\ _should_include(cfg, e.name)) THEN rest
            ELSE LET file_info == _read_file(cfg, e, e.name)
                 IN (IF file_info # NoneObj THEN <<file_info>> ELSE <<>>) \o rest

scan_directory(cfg, root_parts, entries, recursive) ==
    IF recursive THEN scan_directory_recursive(cfg, root_parts, entries)
    ELSE scan_directory_flat(cfg, entries)

-----------------------------------------------------------------------------
(* Inputs *)

\* sequences over S of length at most n
SeqsUpTo(S, n) == UNION {[1..k -> S] : k \in 0..n}

PatternPool == {P_py, P_js, P_min_js, P_q_py, P_empty}
NamePool == {N_a_py, N_ab_py, N_a_min_js, N_a_txt, N_dot_e_py}

\* filesystem entries below the scan root: a readable regular file of a given
\* size, a file that cannot be read, a directory; a file whose name starts
\* with a dot and a file in a directory named build
EntryPool ==
    {[dir |-> d, name |-> n, isfile |-> TRUE, readable |-> TRUE, size |-> s] :
        d \in {<<>>, <<D_src>>, <<D_git>>}, n \in {N_a_py, N_a_txt},
        s \in {0, max_file_size, max_file_size + 1}}
    \cup
    {[dir |-> d, name |-> n, isfile |-> f, readable |-> ~f, size |-> 4096] :
        d \in {<<>>, <<D_src>>, <<D_git>>}, n \in {N_a_py, N_a_txt},
        f \in BOOLEAN}
    \cup
    {[dir |-> <<>>, name |-> N_dot_e_py, isfile |-> TRUE, readable |-> TRUE,
      size |-> max_file_size],
     [dir |-> <<D_build>>, name |-> N_a_py, isfile |-> TRUE, readable |-> TRUE,
      size |-> max_file_size]}

\* Path(root).parts of the absolute path of the scanned directory: /proj,
\* /build/proj, /dist
RootPool == {<<D_root, D_proj>>, <<D_root, D_build, D_proj>>, <<D_root, D_dist>>}

\* no two entries of a tree share a path
DistinctPaths(entries) ==
    \A j, k \in 1..Len(entries) :
        j # k => <<entries[j].dir, entries[j].name>> # <<entries[k].dir, entries[k].name>>

Trees == {t \in SeqsUpTo(EntryPool, MaxFiles) : DistinctPaths(t)}

Idle ==
    /\ files = <<>> /\ to_review = <<>> /\ idx = 0 /\ results = <<>>
    /\ reviewed = 0 /\ skipped = 0 /\ summary = None /\ report = NoneObj
    /\ calls = <<>> /\ progress = 0 /\ error = None /\ console = <<>>

-----------------------------------------------------------------------------
(* The pattern matcher on its own *)

InitMatch ==
    /\ pc = "start"
    /\ \E incl, excl \in SeqsUpTo(PatternPool, MaxPatterns) :
          config = [include_patterns |-> incl, exclude_patterns |-> excl,
                    max_file_size |-> max_file_size]
    /\ \E n \in NamePool : world = [cmd |-> "match", filename |-> n]
    /\ Idle

Match ==
    /\ pc = "start" /\ world.cmd = "match"
    /\ report' = _should_include(config, world.filename)
    /\ pc' = "done"
    /\ UNCHANGED <<console, config, world, files, to_review, idx, results, reviewed,
                   skipped, summary, calls, progress, error>>

NextMatch == Match

SpecMatch == InitMatch /\ [][NextMatch]_vars

-----------------------------------------------------------------------------
(* The filesystem scanner on its own *)

InitScan ==
    /\ pc = "start"
    /\ config = ReviewConfig
    /\ \E c \in {"scan_files", "scan_directory"}, r \in BOOLEAN,
          root \in RootPool, t \in Trees :
          world = [cmd |-> c, recursive |-> r, root_parts |-> root,
                   entries |-> t]
    /\ Idle

ScanFiles ==
    /\ pc = "start" /\ world.cmd = "scan_files"
    /\ files' = scan_files(config, world.entries)
    /\ pc' = "scanned"
    /\ UNCHANGED <<console, config, world, to_review, idx, results, reviewed, skipped,
                   summary, report, calls, progress, error>>

ScanDirectory ==
    /\ pc = "start" /\ world.cmd = "scan_directory"
    /\ files' = scan_directory(config, world.root_parts, world.entries,
                               world.recursive)
    /\ pc' = "scanned"
    /\ UNCHANGED <<console, config, world, to_review, idx, results, reviewed, skipped,
                   summary, report, calls, progress, error>>

NextScan == ScanFiles \/ ScanDirectory

SpecScan == InitScan /\ [][NextScan]_vars

-----------------------------------------------------------------------------
(* Git change extractor: LocalScanner.get_git_changes, get_staged_changes *)

GitChange(filename, status, diff, content) ==
    [filename |-> filename, status |-> status, diff |-> diff, content |-> content]

\* d is one Diff of the diff list: a_path, b_path (<<>> when unset), the flags
\* new_file, deleted_file, renamed, diff ("" when the Diff carries no patch
\* bytes, "undecodable" when decoding them raises), and wt, the text of the
\* working-tree file at repo_path/filename (None when it cannot be read)
DiffFilename(d) == IF d.b_path # <<>> THEN d.b_path ELSE d.a_path

DiffText(d) ==
    IF d.diff = "" THEN None
    ELSE IF d.diff = "undecodable" THEN None
    ELSE d.diff

RangeStatus(d) ==
    IF d.new_file THEN "A"
    ELSE IF d.deleted_file THEN "D"
    ELSE IF d.renamed THEN "R"
    ELSE "M"

StagedStatus(d) ==
    IF d.new_file THEN "A"
    ELSE IF d.deleted_file THEN "D"
    ELSE "M"

\* RangeChanges giving up a change whose working-tree file cannot be read
RECURSIVE RangeChangesDropUnreadable(_, _)
RangeChangesDropUnreadable(cfg, diffs) ==
    IF diffs = <<>> THEN <<>>
    ELSE LET d == Head(diffs)
             filename == DiffFilename(d)
             status == RangeStatus(d)
             content == IF status # "D" THEN d.wt ELSE None
             rest == RangeChangesDropUnreadable(cfg, Tail(diffs))
         IN IF ~_should_include(cfg, filename) THEN rest
            ELSE IF status # "D" /\ d.wt = None THEN rest
            ELSE <<GitChange(filename, status, DiffText(d), content)>> \o rest

\* RangeChanges reading the working-tree file of a deleted change too
RECURSIVE RangeChangesReadDeleted(_, _)
RangeChangesReadDeleted(cfg, diffs) ==
    IF diffs = <<>> THEN <<>>
    ELSE LET d == Head(diffs)
             filename == DiffFilename(d)
             status == RangeStatus(d)
             rest == RangeChangesReadDeleted(cfg, Tail(diffs))
         IN IF ~_should_include(cfg, filename) THEN rest
            ELSE <<GitChange(filename, status, DiffText(d), d.wt)>> \o rest

\* the loop of get_git_changes over diffs
RECURSIVE RangeChanges(_, _)
RangeChanges(cfg, diffs) ==
    IF diffs = <<>> THEN <<>>
    ELSE LET d == Head(diffs)
             filename == DiffFilename(d)
             status == RangeStatus(d)
             content == IF status # "D" THEN d.wt ELSE None
             rest == RangeChanges(cfg, Tail(diffs))
         IN IF ~_should_include(cfg, filename) THEN rest
            ELSE <<GitChange(filename, status, DiffText(d), content)>> \o rest

\* the loop of get_staged_changes over diffs
RECURSIVE StagedChanges(_, _)
StagedChanges(cfg, diffs) ==
    IF diffs = <<>> THEN <<>>
    ELSE LET d == Head(diffs)
             filename == DiffFilename(d)
             status == StagedStatus(d)
             content == IF status # "D" THEN d.wt ELSE None
             rest == StagedChanges(cfg, Tail(diffs))
         IN IF ~_should_include(cfg, filename) THEN rest
            ELSE <<GitChange(filename, status, DiffText(d), content)>> \o rest

-----------------------------------------------------------------------------
(* Review orchestrator: agent/reviewer.py *)

ReviewResult(filename, feedback, status) ==
    [filename |-> filename, feedback |-> feedback, status |-> status]

ReviewReport(rs, sm, total, rev, skp) ==
    [results |-> rs, summary |-> sm, total_files |-> total,
     reviewed_files |-> rev, skipped_files |-> skp]

\* SuccessReviews without its status filter
RECURSIVE SuccessReviewsUnfiltered(_)
SuccessReviewsUnfiltered(rs) ==
    IF rs = <<>> THEN <<>>
    ELSE <<[filename |-> Head(rs).filename, feedback |-> Head(rs).feedback]>>
         \o SuccessReviewsUnfiltered(Tail(rs))

\* the argument the three handlers build for summarize_reviews
RECURSIVE SuccessReviews(_)
SuccessReviews(rs) ==
    IF rs = <<>> THEN <<>>
    ELSE (IF Head(rs).status = "success"
          THEN <<[filename |-> Head(rs).filename, feedback |-> Head(rs).feedback]>>
          ELSE <<>>) \o SuccessReviews(Tail(rs))

\* what the language-model service can do with a call: return a text (the
\* client returns "" for an empty completion) or raise
ReviewOutcomes ==
    {[raised |-> FALSE, text |-> "LGTM"], [raised |-> FALSE, text |-> ""],
     [raised |-> TRUE, text |-> "timeout"]}

SummaryOutcomes ==
    {[raised |-> FALSE, text |-> "overall"], [raised |-> FALSE, text |-> ""],
     [raised |-> TRUE, text |-> "rate limit"]}

ReviewCall(code, filename, context, diff_mode, o) ==
    [call |-> "review_code", code |-> code, filename |-> filename,
     context |-> context, diff_mode |-> diff_mode, raised |-> o.raised,
     outcome |-> o.text]

SummarizeCall(reviews, o) ==
    [call |-> "summarize_reviews", reviews |-> reviews, raised |-> o.raised,
     outcome |-> o.text]

-----------------------------------------------------------------------------
(* review_files, review_directory -> _review_file_list *)

ReviewFiles ==
    /\ pc = "start" /\ world.cmd = "review_files"
    /\ files' = scan_files(config, world.entries)
    /\ to_review' = files'
    /\ idx' = 1
    /\ pc' = "file_loop"
    /\ UNCHANGED <<console, config, world, results, reviewed, skipped, summary, report,
                   calls, progress, error>>

ReviewDirectory ==
    /\ pc = "start" /\ world.cmd = "review_directory"
    /\ files' = scan_directory(config, world.root_parts, world.entries,
                               world.recursive)
    /\ to_review' = files'
    /\ idx' = 1
    /\ pc' = "file_loop"
    /\ UNCHANGED <<console, config, world, results, reviewed, skipped, summary, report,
                   calls, progress, error>>

\* one iteration of the loop under "if show_progress"
ReviewFileProgress ==
    /\ pc = "file_loop" /\ world.show_progress /\ idx <= Len(to_review)
    /\ LET file_info == to_review[idx] IN
       \E o \in ReviewOutcomes :
          /\ calls' = Append(calls, ReviewCall(file_info.content,
                                file_info.relative_path, None, FALSE, o))
          /\ IF ~o.raised
             THEN /\ results' = Append(results,
                        ReviewResult(file_info.relative_path, o.text, "success"))
                  /\ reviewed' = reviewed + 1
                  /\ skipped' = skipped
             ELSE /\ results' = Append(results,
                        ReviewResult(file_info.relative_path, o.text, "error"))
                  /\ skipped' = skipped + 1
                  /\ reviewed' = reviewed
    /\ progress' = progress + 1
    /\ idx' = idx + 1
    /\ UNCHANGED <<console, config, world, pc, files, to_review, summary, report, error>>

\* ReviewFilePlain without its except clause: the failure leaves the loop
ReviewFilePlainAbort ==
    /\ pc = "file_loop" /\ ~world.show_progress /\ idx <= Len(to_review)
    /\ LET file_info == to_review[idx] IN
       \E o \in ReviewOutcomes :
          /\ calls' = Append(calls, ReviewCall(file_info.content,
                                file_info.relative_path, None, FALSE, o))
          /\ IF ~o.raised
             THEN /\ results' = Append(results,
                        ReviewResult(file_info.relative_path, o.text, "success"))
                  /\ reviewed' = reviewed + 1
                  /\ idx' = idx + 1
                  /\ UNCHANGED <<skipped, pc, error>>
             ELSE /\ pc' = "raised"
                  /\ error' = o.text
                  /\ UNCHANGED <<results, reviewed, skipped, idx>>
    /\ UNCHANGED <<console, config, world, files, to_review, summary, report, progress>>

\* one iteration of the loop under "else"
ReviewFilePlain ==
    /\ pc = "file_loop" /\ ~world.show_progress /\ idx <= Len(to_review)
    /\ LET file_info == to_review[idx] IN
       \E o \in ReviewOutcomes :
          /\ calls' = Append(calls, ReviewCall(file_info.content,
                                file_info.relative_path, None, FALSE, o))
          /\ IF ~o.raised
             THEN /\ results' = Append(results,
                        ReviewResult(file_info.relative_path, o.text, "success"))
                  /\ reviewed' = reviewed + 1
                  /\ skipped' = skipped
             ELSE /\ results' = Append(results,
                        ReviewResult(file_info.relative_path, o.text, "error"))
                  /\ skipped' = skipped + 1
                  /\ reviewed' = reviewed
    /\ idx' = idx + 1
    /\ UNCHANGED <<console, config, world, pc, files, to_review, summary, report,
                   progress, error>>

\* FileListReturn leaving the loop one item early
FileListReturnEarly ==
    /\ pc = "file_loop" /\ idx >= Len(to_review)
    /\ IF results # <<>>
       THEN \E o \in SummaryOutcomes :
               /\ calls' = Append(calls, SummarizeCall(SuccessReviews(results), o))
               /\ IF o.raised
                  THEN /\ pc' = "raised"
                       /\ error' = o.text
                       /\ UNCHANGED <<summary, report>>
                  ELSE /\ summary' = o.text
                       /\ report' = ReviewReport(results, o.text, Len(files),
                                                 reviewed, skipped)
                       /\ pc' = "done"
                       /\ error' = error
       ELSE /\ report' = ReviewReport(results, None, Len(files), reviewed, skipped)
            /\ pc' = "done"
            /\ UNCHANGED <<summary, calls, error>>
    /\ UNCHANGED <<console, config, world, files, to_review, idx, results, reviewed,
                   skipped, progress>>

\* after the loop: the summary and the report
FileListReturn ==
    /\ pc = "file_loop" /\ idx > Len(to_review)
    /\ IF results # <<>>
       THEN \E o \in SummaryOutcomes :
               /\ calls' = Append(calls, SummarizeCall(SuccessReviews(results), o))
               /\ IF o.raised
                  THEN /\ pc' = "raised"
                       /\ error' = o.text
                       /\ UNCHANGED <<summary, report>>
                  ELSE /\ summary' = o.text
                       /\ report' = ReviewReport(results, o.text, Len(files),
                                                 reviewed, skipped)
                       /\ pc' = "done"
                       /\ error' = error
       ELSE /\ report' = ReviewReport(results, None, Len(files), reviewed, skipped)
            /\ pc' = "done"
            /\ UNCHANGED <<summary, calls, error>>
    /\ UNCHANGED <<console, config, world, files, to_review, idx, results, reviewed,
                   skipped, progress>>

-----------------------------------------------------------------------------
(* review_git_changes, review_staged -> _review_git_changes *)

\* what get_git_changes and get_staged_changes raise when git.Repo(repo_path)
\* fails: the f-string message of the ValueError that replaces
\* InvalidGitRepositoryError (a directory that is no repository); for a path
\* that does not exist git.Repo raises NoSuchPathError(repo_path), which the
\* except clause does not name and which therefore leaves the call as it is
OpenRepoError(w) ==
    IF w.repo_exists
    THEN [type |-> "ValueError",
          message |-> <<w.repo_path, " is not a valid git repository">>]
    ELSE [type |-> "NoSuchPathError", message |-> <<w.repo_path>>]

RECURSIVE NotDeleted(_)
NotDeleted(changes) ==
    IF changes = <<>> THEN <<>>
    ELSE (IF Head(changes).status # "D" THEN <<Head(changes)>> ELSE <<>>)
         \o NotDeleted(Tail(changes))

\* repo.head.commit.diff(git.NULL_TREE) is git diff-tree --root -r on the
\* HEAD commit: for a root commit every file of its tree as a creation
\* (new_file, no patch bytes since create_patch is not asked for), for any
\* other commit its diff against its parent
NullTreeDiffs(w) ==
    IF w.head_is_root
    THEN [k \in 1..Len(w.tracked) |->
             [a_path |-> w.tracked[k].name, b_path |-> w.tracked[k].name,
              new_file |-> TRUE, deleted_file |-> FALSE, renamed |-> FALSE,
              diff |-> "", wt |-> w.tracked[k].wt]]
    ELSE w.diffs

\* the diff list of get_git_changes: base_ref against head_ref, and HEAD
\* against the empty tree when repo.commit(base_ref) raises BadName
RangeDiffs(w) == IF w.base_resolves THEN w.diffs ELSE NullTreeDiffs(w)

\* ReviewGitChanges without the except clause for git.BadName
ReviewGitChangesNoFallback ==
    /\ pc = "start" /\ world.cmd = "review_git_changes"
    /\ IF ~world.repo_valid
       THEN /\ pc' = "raised"
            /\ error' = OpenRepoError(world)
            /\ UNCHANGED <<files, to_review, idx>>
       ELSE IF ~world.base_resolves
       THEN /\ pc' = "raised"
            /\ error' = [type |-> "BadName", message |-> <<"HEAD~1">>]
            /\ UNCHANGED <<files, to_review, idx>>
       ELSE /\ files' = RangeChanges(config, world.diffs)
            /\ to_review' = NotDeleted(files')
            /\ idx' = 1
            /\ pc' = "change_loop"
            /\ error' = error
    /\ UNCHANGED <<console, config, world, results, reviewed, skipped, summary, report,
                   calls, progress>>

ReviewGitChanges ==
    /\ pc = "start" /\ world.cmd = "review_git_changes"
    /\ IF ~world.repo_valid
       THEN /\ pc' = "raised"
            /\ error' = OpenRepoError(world)
            /\ UNCHANGED <<files, to_review, idx>>
       ELSE /\ files' = RangeChanges(config, RangeDiffs(world))
            /\ to_review' = NotDeleted(files')
            /\ idx' = 1
            /\ pc' = "change_loop"
            /\ error' = error
    /\ UNCHANGED <<console, config, world, results, reviewed, skipped, summary, report,
                   calls, progress>>

\* repo.index.diff("HEAD"): IndexFile.diff inverts the R flag for a diff of
\* the index against a commit, so the list describes the way from the index
\* to HEAD: a file staged as new is in the index and not in HEAD and comes
\* as deleted_file, a file staged for deletion comes as new_file; both paths
\* of the Diff are set, and a staged rename (name is the path the Diff has
\* as b_path) comes with renamed set
IndexDiffHead(staged) ==
    [k \in 1..Len(staged) |->
        [a_path |-> IF staged[k].op = "renamed" THEN <<"o">> \o staged[k].name
                    ELSE staged[k].name,
         b_path |-> staged[k].name,
         new_file |-> staged[k].op = "deleted",
         deleted_file |-> staged[k].op = "new",
         renamed |-> staged[k].op = "renamed",
         diff |-> staged[k].diff, wt |-> staged[k].wt]]

ReviewStaged ==
    /\ pc = "start" /\ world.cmd = "review_staged"
    /\ IF ~world.repo_valid
       THEN /\ pc' = "raised"
            /\ error' = OpenRepoError(world)
            /\ UNCHANGED <<files, to_review, idx>>
       ELSE /\ files' = StagedChanges(config, IndexDiffHead(world.staged))
            /\ to_review' = NotDeleted(files')
            /\ idx' = 1
            /\ pc' = "change_loop"
            /\ error' = error
    /\ UNCHANGED <<console, config, world, results, reviewed, skipped, summary, report,
                   calls, progress>>

\* CodeOf preferring the content to the diff
CodeOfContentFirst(change) ==
    IF Truthy(change.content) THEN change.content ELSE change.diff

\* change.diff or change.content
CodeOf(change) == IF Truthy(change.diff) THEN change.diff ELSE change.content

\* ReviewChangeProgress not counting a change without text as skipped
ReviewChangeProgressNoSkipCount ==
    /\ pc = "change_loop" /\ world.show_progress /\ idx <= Len(to_review)
    /\ LET change == to_review[idx]
           code == CodeOf(change)
       IN IF ~Truthy(code)
          THEN UNCHANGED <<results, reviewed, skipped, calls>>
          ELSE \E o \in ReviewOutcomes :
                  /\ calls' = Append(calls, ReviewCall(code, change.filename,
                                        None, Truthy(change.diff), o))
                  /\ IF ~o.raised
                     THEN /\ results' = Append(results,
                                ReviewResult(change.filename, o.text, "success"))
                          /\ reviewed' = reviewed + 1
                          /\ skipped' = skipped
                     ELSE /\ results' = Append(results,
                                ReviewResult(change.filename, o.text, "error"))
                          /\ skipped' = skipped + 1
                          /\ reviewed' = reviewed
    /\ progress' = progress + 1
    /\ idx' = idx + 1
    /\ UNCHANGED <<console, config, world, pc, files, to_review, summary, report, error>>

\* one iteration of the loop under "if show_progress"
ReviewChangeProgress ==
    /\ pc = "change_loop" /\ world.show_progress /\ idx <= Len(to_review)
    /\ LET change == to_review[idx]
           code == CodeOf(change)
       IN IF ~Truthy(code)
          THEN /\ skipped' = skipped + 1
               /\ UNCHANGED <<results, reviewed, calls>>
          ELSE \E o \in ReviewOutcomes :
                  /\ calls' = Append(calls, ReviewCall(code, change.filename,
                                        None, Truthy(change.diff), o))
                  /\ IF ~o.raised
                     THEN /\ results' = Append(results,
                                ReviewResult(change.filename, o.text, "success"))
                          /\ reviewed' = reviewed + 1
                          /\ skipped' = skipped
                     ELSE /\ results' = Append(results,
                                ReviewResult(change.filename, o.text, "error"))
                          /\ skipped' = skipped + 1
                          /\ reviewed' = reviewed
    /\ progress' = progress + 1
    /\ idx' = idx + 1
    /\ UNCHANGED <<console, config, world, pc, files, to_review, summary, report, error>>

\* ReviewChangePlain counting a failed item without recording its result
ReviewChangePlainDropError ==
    /\ pc = "change_loop" /\ ~world.show_progress /\ idx <= Len(to_review)
    /\ LET change == to_review[idx]
           code == CodeOf(change)
       IN IF ~Truthy(code)
          THEN /\ skipped' = skipped + 1
               /\ UNCHANGED <<results, reviewed, calls>>
          ELSE \E o \in ReviewOutcomes :
                  /\ calls' = Append(calls, ReviewCall(code, change.filename,
                                        None, Truthy(change.diff), o))
                  /\ IF ~o.raised
                     THEN /\ results' = Append(results,
                                ReviewResult(change.filename, o.text, "success"))
                          /\ reviewed' = reviewed + 1
                          /\ skipped' = skipped
                     ELSE /\ results' = results
                          /\ skipped' = skipped + 1
                          /\ reviewed' = reviewed
    /\ idx' = idx + 1
    /\ UNCHANGED <<console, config, world, pc, files, to_review, summary, report,
                   progress, error>>

\* one iteration of the loop under "else"
ReviewChangePlain ==
    /\ pc = "change_loop" /\ ~world.show_progress /\ idx <= Len(to_review)
    /\ LET change == to_review[idx]
           code == CodeOf(change)
       IN IF ~Truthy(code)
          THEN /\ skipped' = skipped + 1
               /\ UNCHANGED <<results, reviewed, calls>>
          ELSE \E o \in ReviewOutcomes :
                  /\ calls' = Append(calls, ReviewCall(code, change.filename,
                                        None, Truthy(change.diff), o))
                  /\ IF ~o.raised
                     THEN /\ results' = Append(results,
                                ReviewResult(change.filename, o.text, "success"))
                          /\ reviewed' = reviewed + 1
                          /\ skipped' = skipped
                     ELSE /\ results' = Append(results,
                                ReviewResult(change.filename, o.text, "error"))
                          /\ skipped' = skipped + 1
                          /\ reviewed' = reviewed
    /\ idx' = idx + 1
    /\ UNCHANGED <<console, config, world, pc, files, to_review, summary, report,
                   progress, error>>

\* GitChangesReturn with total_files=len(results)
GitChangesReturnTotalOfResults ==
    /\ pc = "change_loop" /\ idx > Len(to_review)
    /\ IF results # <<>>
       THEN \E o \in SummaryOutcomes :
               /\ calls' = Append(calls, SummarizeCall(SuccessReviews(results), o))
               /\ IF o.raised
                  THEN /\ pc' = "raised"
                       /\ error' = o.text
                       /\ UNCHANGED <<summary, report>>
                  ELSE /\ summary' = o.text
                       /\ report' = ReviewReport(results, o.text, Len(results),
                                                 reviewed, skipped)
                       /\ pc' = "done"
                       /\ error' = error
       ELSE /\ report' = ReviewReport(results, None, Len(results), reviewed, skipped)
            /\ pc' = "done"
            /\ UNCHANGED <<summary, calls, error>>
    /\ UNCHANGED <<console, config, world, files, to_review, idx, results, reviewed,
                   skipped, progress>>

\* after the loop: the summary and the report
GitChangesReturn ==
    /\ pc = "change_loop" /\ idx > Len(to_review)
    /\ IF results # <<>>
       THEN \E o \in SummaryOutcomes :
               /\ calls' = Append(calls, SummarizeCall(SuccessReviews(results), o))
               /\ IF o.raised
                  THEN /\ pc' = "raised"
                       /\ error' = o.text
                       /\ UNCHANGED <<summary, report>>
                  ELSE /\ summary' = o.text
                       /\ report' = ReviewReport(results, o.text, Len(files),
                                                 reviewed, skipped)
                       /\ pc' = "done"
                       /\ error' = error
       ELSE /\ report' = ReviewReport(results, None, Len(files), reviewed, skipped)
            /\ pc' = "done"
            /\ UNCHANGED <<summary, calls, error>>
    /\ UNCHANGED <<console, config, world, files, to_review, idx, results, reviewed,
                   skipped, progress>>

-----------------------------------------------------------------------------
(* review_pr *)

\* [f for f in pr_info.files if f.patch and f.status != "removed"]
RECURSIVE PrFilesToReview(_)
PrFilesToReview(pr_files) ==
    IF pr_files = <<>> THEN <<>>
    ELSE (IF Truthy(Head(pr_files).patch) /\ Head(pr_files).status # "removed"
          THEN <<Head(pr_files)>> ELSE <<>>)
         \o PrFilesToReview(Tail(pr_files))

PrContext == "PR: title"

\* the document _format_pr_comment renders: title, the two counters, the
\* summary section when there is a summary, one section per success result
_format_pr_comment(rep, pr_title) ==
    [pr_title |-> pr_title,
     files_reviewed |-> <<rep.reviewed_files, rep.total_files>>,
     summary |-> IF Truthy(rep.summary) THEN rep.summary ELSE None,
     details |-> SuccessReviews(rep.results)]

ReviewPr ==
    /\ pc = "start" /\ world.cmd = "review_pr"
    /\ IF ~world.github
       THEN /\ pc' = "raised"
            /\ error' = [type |-> "ValueError",
                          message |-> <<"GitHub configuration is required for PR review">>]
            /\ UNCHANGED <<files, to_review, idx, calls>>
       ELSE \E o \in {[raised |-> FALSE, text |-> ""],
                      [raised |-> TRUE, text |-> "not found"]} :
               /\ calls' = Append(calls, [call |-> "get_pr", raised |-> o.raised])
               /\ IF o.raised
                  THEN /\ pc' = "raised"
                       /\ error' = o.text
                       /\ UNCHANGED <<files, to_review, idx>>
                  ELSE /\ files' = world.pr_files
                       /\ to_review' = PrFilesToReview(files')
                       /\ idx' = 1
                       /\ pc' = "pr_loop"
                       /\ error' = error
    /\ UNCHANGED <<console, config, world, results, reviewed, skipped, summary, report,
                   progress>>

\* ReviewPrFileProgress counting a failed item as reviewed
ReviewPrFileProgressMiscount ==
    /\ pc = "pr_loop" /\ world.show_progress /\ idx <= Len(to_review)
    /\ LET pr_file == to_review[idx] IN
       \E o \in ReviewOutcomes :
          /\ calls' = Append(calls, ReviewCall(pr_file.patch, pr_file.filename,
                                PrContext, TRUE, o))
          /\ IF ~o.raised
             THEN /\ results' = Append(results,
                        ReviewResult(pr_file.filename, o.text, "success"))
                  /\ reviewed' = reviewed + 1
                  /\ skipped' = skipped
             ELSE /\ results' = Append(results,
                        ReviewResult(pr_file.filename, o.text, "error"))
                  /\ reviewed' = reviewed + 1
                  /\ skipped' = skipped
    /\ progress' = progress + 1
    /\ idx' = idx + 1
    /\ UNCHANGED <<console, config, world, pc, files, to_review, summary, report, error>>

\* one iteration of the loop under "if show_progress"
ReviewPrFileProgress ==
    /\ pc = "pr_loop" /\ world.show_progress /\ idx <= Len(to_review)
    /\ LET pr_file == to_review[idx] IN
       \E o \in ReviewOutcomes :
          /\ calls' = Append(calls, ReviewCall(pr_file.patch, pr_file.filename,
                                PrContext, TRUE, o))
          /\ IF ~o.raised
             THEN /\ results' = Append(results,
                        ReviewResult(pr_file.filename, o.text, "success"))
                  /\ reviewed' = reviewed + 1
                  /\ skipped' = skipped
             ELSE /\ results' = Append(results,
                        ReviewResult(pr_file.filename, o.text, "error"))
                  /\ skipped' = skipped + 1
                  /\ reviewed' = reviewed
    /\ progress' = progress + 1
    /\ idx' = idx + 1
    /\ UNCHANGED <<console, config, world, pc, files, to_review, summary, report, error>>

\* one iteration of the loop under "else"
ReviewPrFilePlain ==
    /\ pc = "pr_loop" /\ ~world.show_progress /\ idx <= Len(to_review)
    /\ LET pr_file == to_review[idx] IN
       \E o \in ReviewOutcomes :
          /\ calls' = Append(calls, ReviewCall(pr_file.patch, pr_file.filename,
                                PrContext, TRUE, o))
          /\ IF ~o.raised
             THEN /\ results' = Append(results,
                        ReviewResult(pr_file.filename, o.text, "success"))
                  /\ reviewed' = reviewed + 1
                  /\ skipped' = skipped
             ELSE /\ results' = Append(results,
                        ReviewResult(pr_file.filename, o.text, "error"))
                  /\ skipped' = skipped + 1
                  /\ reviewed' = reviewed
    /\ idx' = idx + 1
    /\ UNCHANGED <<console, config, world, pc, files, to_review, summary, report,
                   progress, error>>

\* PrSummarize without its "if results" guard
PrSummarizeAlways ==
    /\ pc = "pr_loop" /\ idx > Len(to_review)
    /\ \E o \in SummaryOutcomes :
          /\ calls' = Append(calls, SummarizeCall(SuccessReviews(results), o))
          /\ IF o.raised
             THEN /\ pc' = "raised"
                  /\ error' = o.text
                  /\ UNCHANGED <<summary, report>>
             ELSE /\ summary' = o.text
                  /\ pc' = "pr_post"
                  /\ UNCHANGED <<report, error>>
    /\ UNCHANGED <<console, config, world, files, to_review, idx, results, reviewed,
                   skipped, progress>>

\* after the loop: the summary and the report; the comment is posted next
PrSummarize ==
    /\ pc = "pr_loop" /\ idx > Len(to_review)
    /\ IF results # <<>>
       THEN \E o \in SummaryOutcomes :
               /\ calls' = Append(calls, SummarizeCall(SuccessReviews(results), o))
               /\ IF o.raised
                  THEN /\ pc' = "raised"
                       /\ error' = o.text
                       /\ UNCHANGED <<summary, report>>
                  ELSE /\ summary' = o.text
                       /\ pc' = "pr_post"
                       /\ UNCHANGED <<report, error>>
       ELSE /\ pc' = "pr_post"
            /\ UNCHANGED <<summary, report, calls, error>>
    /\ UNCHANGED <<console, config, world, files, to_review, idx, results, reviewed,
                   skipped, progress>>

\* the report, the comment when requested, the return
PrReturn ==
    /\ pc = "pr_post"
    /\ LET rep == ReviewReport(results, summary, Len(files), reviewed, skipped) IN
       IF world.post_comment /\ Truthy(summary)
       THEN \E o \in {[raised |-> FALSE, text |-> ""],
                      [raised |-> TRUE, text |-> "forbidden"]} :
               /\ calls' = Append(calls, [call |-> "create_review_comment",
                                          body |-> _format_pr_comment(rep, "title"),
                                          raised |-> o.raised])
               /\ IF o.raised
                  THEN /\ pc' = "raised"
                       /\ error' = o.text
                       /\ report' = report
                  ELSE /\ report' = rep
                       /\ pc' = "done"
                       /\ error' = error
       ELSE /\ report' = rep
            /\ pc' = "done"
            /\ UNCHANGED <<calls, error>>
    /\ UNCHANGED <<console, config, world, files, to_review, idx, results, reviewed,
                   skipped, summary, progress>>

-----------------------------------------------------------------------------
(* main.py: what the staged and pr commands do with the outcome of the run *)

\* agent.print_report(report)
PrintReport(rep) == [print |-> "report", report |-> rep]

\* staged: after review_staged returned or raised.  Only ValueError is
\* caught; any other exception leaves the command
StagedCommand ==
    /\ pc \in {"done", "raised"} /\ world.cmd = "review_staged"
    /\ IF pc = "done"
       THEN /\ console' = Append(console,
                    IF report.reviewed_files = 0
                    THEN [print |-> "No staged changes to review"]
                    ELSE PrintReport(report))
            /\ pc' = "exit"
       ELSE IF calls = <<>> /\ error.type = "ValueError"
       THEN /\ console' = Append(console, [print |-> "Error", error |-> error])
            /\ pc' = "exit"
       ELSE /\ console' = console
            /\ pc' = "crashed"
    /\ UNCHANGED <<config, world, files, to_review, idx, results, reviewed,
                   skipped, summary, report, calls, progress, error>>

\* pr: after review_pr returned or raised; the command calls review_pr only
\* with a GitHub configuration
PrCommand ==
    /\ pc \in {"done", "raised"} /\ world.cmd = "review_pr" /\ world.github
    /\ IF pc = "done"
       THEN console' = console \o <<PrintReport(report)>>
                       \o (IF world.post_comment
                           THEN <<[print |-> "Review posted as PR comment"]>>
                           ELSE <<>>)
       ELSE console' = Append(console, [print |-> "Error", error |-> error])
    /\ pc' = "exit"
    /\ UNCHANGED <<config, world, files, to_review, idx, results, reviewed,
                   skipped, summary, report, calls, progress, error>>

-----------------------------------------------------------------------------
(* One run of an entry point of CodeReviewAgent *)

NameAt == <<N_a_py, N_b_py, N_c_py, N_d_py>>

\* the k-th path given to review_files / found below the directory: a regular
\* readable file of some size, or a file that cannot be read
FileAt(k) ==
    {[dir |-> <<>>, name |-> NameAt[k], isfile |-> TRUE, readable |-> TRUE,
      size |-> s] : s \in {0, max_file_size, max_file_size + 1}}
    \cup
    {[dir |-> <<>>, name |-> NameAt[k], isfile |-> TRUE, readable |-> FALSE,
      size |-> 4096]}

\* the k-th Diff of the repository's diff list
DiffAt(k) ==
    LET D(new, del, ren, b, diff, wt) ==
            [a_path |-> NameAt[k], b_path |-> b, new_file |-> new,
             deleted_file |-> del, renamed |-> ren, diff |-> diff, wt |-> wt]
    IN {D(FALSE, FALSE, FALSE, NameAt[k], "diff", "code"),
        D(TRUE, FALSE, FALSE, NameAt[k], "", "code"),
        D(FALSE, FALSE, FALSE, NameAt[k], "", None),
        D(FALSE, FALSE, FALSE, NameAt[k], "undecodable", ""),
        D(FALSE, TRUE, FALSE, <<>>, "diff", None),
        D(FALSE, TRUE, FALSE, <<>>, "diff", "code"),
        D(FALSE, FALSE, TRUE, NameAt[k], "diff", "")}

\* the k-th file of the tree of the HEAD commit: a name the default patterns
\* accept or one they do not, and the text of its working-tree file (None
\* when it cannot be read)
TxtNameAt(k) == <<NameAt[k][1], ".", "t", "x", "t">>

TrackedAt(k) ==
    {[name |-> n, wt |-> t] : n \in {NameAt[k], TxtNameAt(k)}, t \in {"code", None}}

\* the k-th staged change of the repository: what was staged (a new file,
\* a deletion, a modification), the patch bytes the Diff carries and the
\* text of the working-tree file
StagedAt(k) ==
    LET S(op, diff, wt) == [name |-> NameAt[k], op |-> op, diff |-> diff, wt |-> wt]
    IN {S("new", "", "code"),
        S("deleted", "", None),
        S("deleted", "", "code"),
        S("modified", "diff", "code"),
        S("modified", "", None),
        S("modified", "undecodable", ""),
        S("renamed", "", "code")}

\* the head_ref argument of a run: the default, or the name of a branch
\* that is not checked out
HeadRefs == {"HEAD", "feature"}

\* the k-th file of the tree of the commit that head_ref names, when that is
\* not the tree of a root commit at HEAD
RefTrackedAt(k) == {[name |-> NameAt[k], wt |-> "code"]}

\* the repo_path arguments of a run
RepoPaths == {".", "/tmp/x"}

\* the k-th file of the pull request
PrFileAt(k) ==
    {[filename |-> NameAt[k], status |-> st, patch |-> p] :
        st \in {"modified", "removed"}, p \in {None, "", "patch"}}

\* sequences of length at most n whose k-th element is drawn from At(k)
RECURSIVE ListsOf(_, _)
ListsOf(At(_), n) ==
    IF n = 0 THEN {<<>>}
    ELSE LET shorter == ListsOf(At, n - 1)
         IN shorter \cup {Append(l, x) : l \in {m \in shorter : Len(m) = n - 1},
                                          x \in At(n)}

\* the repository and arguments of a review_git_changes run: repo_path is
\* no repository; base_ref resolves and diffs is the diff list of base_ref
\* against head_ref; base_ref does not resolve and HEAD is a root commit with
\* the tree tracked; base_ref does not resolve and HEAD has a parent, diffs
\* being the diff list of HEAD against it.  ref_tracked is the tree of the
\* commit that head_ref names.
RangeWorld(path, exists, valid, base, h, root, tr, rt, ds) ==
    [cmd |-> "review_git_changes", show_progress |-> FALSE,
     repo_path |-> path, repo_exists |-> exists, repo_valid |-> valid,
     base_resolves |-> base, head_ref |-> h, head_is_root |-> root,
     tracked |-> tr, ref_tracked |-> rt, diffs |-> ds]

RangeWorlds ==
    {RangeWorld(path, x \/ path = ".", FALSE, TRUE, "HEAD", FALSE, <<>>, <<>>, <<>>) :
        path \in RepoPaths, x \in BOOLEAN}
    \cup
    {RangeWorld(".", TRUE, TRUE, TRUE, "HEAD", FALSE, <<>>, <<>>, ds) :
        ds \in ListsOf(DiffAt, MaxItems)}
    \cup
    {RangeWorld(".", TRUE, TRUE, FALSE, "HEAD", TRUE, tr, tr, <<>>) :
        tr \in ListsOf(TrackedAt, MaxItems)}
    \cup
    {RangeWorld(".", TRUE, TRUE, FALSE, "feature", TRUE, tr, rt, <<>>) :
        tr \in ListsOf(TrackedAt, MaxItems), rt \in ListsOf(RefTrackedAt, MaxItems)}
    \cup
    {RangeWorld(".", TRUE, TRUE, FALSE, h, FALSE, <<>>, rt, ds) :
        h \in HeadRefs, rt \in ListsOf(RefTrackedAt, MaxItems),
        ds \in ListsOf(DiffAt, MaxItems)}

Init ==
    /\ pc = "start"
    /\ config = ReviewConfig
    /\ \E p \in BOOLEAN :
          \/ \E t \in ListsOf(FileAt, MaxItems) :
                world = [cmd |-> "review_files", show_progress |-> p, entries |-> t]
          \/ \E t \in ListsOf(FileAt, MaxItems), r \in BOOLEAN :
                world = [cmd |-> "review_directory", show_progress |-> p,
                         recursive |-> r, root_parts |-> <<D_root, D_proj>>,
                         entries |-> t]
          \/ \E w \in RangeWorlds : world = [w EXCEPT !.show_progress = p]
          \/ \E path \in RepoPaths, x \in BOOLEAN :
                world = [cmd |-> "review_staged", show_progress |-> p,
                         repo_path |-> path, repo_exists |-> x \/ path = ".",
                         repo_valid |-> FALSE, staged |-> <<>>]
          \/ \E st \in ListsOf(StagedAt, MaxItems) :
                world = [cmd |-> "review_staged", show_progress |-> p,
                         repo_path |-> ".", repo_exists |-> TRUE,
                         repo_valid |-> TRUE, staged |-> st]
          \/ \E g \in BOOLEAN, post \in BOOLEAN, fs \in ListsOf(PrFileAt, MaxItems) :
                world = [cmd |-> "review_pr", show_progress |-> p, github |-> g,
                         post_comment |-> post,
                         pr_files |-> IF g THEN fs ELSE <<>>]
    /\ Idle

Next ==
    \/ ReviewFiles \/ ReviewDirectory
    \/ ReviewFileProgress \/ ReviewFilePlain \/ FileListReturn
    \/ ReviewGitChanges \/ ReviewStaged
    \/ ReviewChangeProgress \/ ReviewChangePlain \/ GitChangesReturn
    \/ ReviewPr \/ ReviewPrFileProgress \/ ReviewPrFilePlain
    \/ PrSummarize \/ PrReturn
    \/ StagedCommand \/ PrCommand

Spec == Init /\ [][Next]_vars

-----------------------------------------------------------------------------
(* Properties of a run *)

IsReviewCall(c) == c.call = "review_code"
IsSummarizeCall(c) == c.call = "summarize_reviews"
ReviewCallLog == SelectSeq(calls, IsReviewCall)
SummarizeCallLog == SelectSeq(calls, IsSummarizeCall)

LoopPcs == {"file_loop", "change_loop", "pr_loop"}
FileCmds == {"review_files", "review_directory"}
GitCmds == {"review_git_changes", "review_staged"}

\* the filename of an item of the review loop, and whether the loop sends it
\* to the review call
ItemName(it) == IF world.cmd \in FileCmds THEN it.relative_path ELSE it.filename
ItemDispatched(it) ==
    IF world.cmd \in GitCmds THEN Truthy(it.diff) \/ Truthy(it.content) ELSE TRUE
Dispatched == SelectSeq(to_review, ItemDispatched)

CountStatus(rs, st) == Cardinality({k \in 1..Len(rs) : rs[k].status = st})

\* C1: a review call that fails leaves an Error result with the item's
\* filename and the failure's description and the run stays in its loop; once
\* the loop is over, every item it dispatches has had its review call,
\* whatever failed before it.
C1_FailureIsolated ==
    /\ \A k \in 1..Len(ReviewCallLog) :
          ReviewCallLog[k].raised =>
             /\ k <= Len(results)
             /\ results[k] = ReviewResult(ReviewCallLog[k].filename,
                                          ReviewCallLog[k].outcome, "error")
    /\ (calls # <<>> /\ IsReviewCall(calls[Len(calls)]) /\ calls[Len(calls)].raised)
          => pc \in LoopPcs
    /\ idx > Len(to_review) =>
          \A k \in 1..Len(to_review) :
             ItemDispatched(to_review[k]) =>
                \E j \in 1..Len(ReviewCallLog) :
                    ReviewCallLog[j].filename = ItemName(to_review[k])

\* a finished run whose first review call failed and which went on to
\* review two more items
C1_Witness ==
    /\ pc = "done"
    /\ Len(ReviewCallLog) = 3
    /\ ReviewCallLog[1].raised
    /\ ~ReviewCallLog[3].raised

\* C2: the report has one result per dispatched item, in input order, with
\* the item's filename, Error exactly where the item's review call failed and
\* Success elsewhere.
C2_OneResultPerItemInOrder ==
    pc = "done" =>
       /\ Len(report.results) = Len(Dispatched)
       /\ Len(ReviewCallLog) = Len(Dispatched)
       /\ \A j \in 1..Len(Dispatched) :
             /\ report.results[j].filename = ItemName(Dispatched[j])
             /\ ReviewCallLog[j].filename = ItemName(Dispatched[j])
             /\ report.results[j].status = "error" <=> ReviewCallLog[j].raised
             /\ report.results[j].status = "success" <=> ~ReviewCallLog[j].raised

\* three items, the second of which failed
C2_Witness ==
    /\ pc = "done"
    /\ Len(report.results) = 3
    /\ report.results[1].status = "success"
    /\ report.results[2].status = "error"
    /\ report.results[3].status = "success"
    /\ report.results[1].filename = N_a_py
    /\ report.results[3].filename = N_c_py

\* C3: summarization is never invoked when there is no Success result (so
\* never with an empty sequence), and the summary is then None.
C3_NoSummaryWithoutSuccess ==
    /\ \A k \in 1..Len(calls) :
          IsSummarizeCall(calls[k]) =>
             /\ CountStatus(results, "success") > 0
             /\ calls[k].reviews # <<>>
    /\ (pc = "done" /\ CountStatus(results, "success") = 0) => report.summary = None

\* the position in rs of its j-th Success result
NthSuccess(rs, j) ==
    CHOOSE k \in 1..Len(rs) :
        /\ rs[k].status = "success"
        /\ Cardinality({m \in 1..k : rs[m].status = "success"}) = j

\* C4: the argument of a summarization call is the (filename, feedback) pairs
\* of the Success results, all of them, in the order of the results, and of
\* no other result.
C4_SummaryInputIsSuccesses ==
    \A k \in 1..Len(calls) :
       IsSummarizeCall(calls[k]) =>
          /\ Len(calls[k].reviews) = CountStatus(results, "success")
          /\ \A j \in 1..Len(calls[k].reviews) :
                /\ calls[k].reviews[j].filename = results[NthSuccess(results, j)].filename
                /\ calls[k].reviews[j].feedback = results[NthSuccess(results, j)].feedback

\* [A ok, B fails, C ok] summarized over [A, C]
C4_Witness ==
    /\ Len(results) = 3
    /\ results[1].status = "success"
    /\ results[2].status = "error"
    /\ results[3].status = "success"
    /\ Len(SummarizeCallLog) = 1
    /\ Len(SummarizeCallLog[1].reviews) = 2
    /\ SummarizeCallLog[1].reviews[1].filename = N_a_py
    /\ SummarizeCallLog[1].reviews[2].filename = N_c_py

\* C5: a summarization call that fails does not end the run with an
\* exception, and the run returns a report holding the results produced.
C5_SummaryFailureAbsorbed ==
    (\E k \in 1..Len(calls) : IsSummarizeCall(calls[k]) /\ calls[k].raised) =>
       /\ pc # "raised"
       /\ pc = "done" => report.results = results

\* C6: total_files >= reviewed_files + skipped_files in every report.
C6_TotalBoundsCounters ==
    pc = "done" =>
       report.total_files >= report.reviewed_files + report.skipped_files

\* a report with a failed item and fewer counted than offered
C6_Witness ==
    /\ pc = "done"
    /\ report.skipped_files > 0
    /\ report.reviewed_files > 0
    /\ report.total_files > report.reviewed_files + report.skipped_files

\* C7 as stated: reviewed_files counts the Success results, skipped_files the
\* Error results, and the two add up to the number of results.
C7_CountersCountResults ==
    pc = "done" =>
       /\ report.reviewed_files = CountStatus(report.results, "success")
       /\ report.skipped_files = CountStatus(report.results, "error")
       /\ report.reviewed_files + report.skipped_files = Len(report.results)

\* the non-deleted changes with neither diff nor content; none on the other
\* entry points
UndispatchedChanges ==
    IF world.cmd \in GitCmds
    THEN Cardinality({k \in 1..Len(files) :
            /\ files[k].status # "D"
            /\ ~Truthy(files[k].diff) /\ ~Truthy(files[k].content)})
    ELSE 0

\* C7 amended: reviewed_files counts the Success results; skipped_files
\* counts the Error results plus, in git-range and staged review, the
\* non-deleted changes that have neither diff nor content (which get no
\* result); deleted changes and pull-request files that are removed or have
\* no patch add to neither counter.
C7_CountersAmended ==
    pc = "done" =>
       /\ report.reviewed_files = CountStatus(report.results, "success")
       /\ report.skipped_files =
             CountStatus(report.results, "error") + UndispatchedChanges
       /\ CountStatus(report.results, "success")
             + CountStatus(report.results, "error") = Len(report.results)

\* a git report over a deleted change, a change that had no text and a
\* change reviewed with success
C7_Witness ==
    /\ pc = "done"
    /\ world.cmd \in GitCmds
    /\ Len(files) = 3 /\ Len(to_review) = 2
    /\ UndispatchedChanges = 1
    /\ report.reviewed_files = 1
    /\ report.skipped_files = 1
    /\ Len(report.results) = 1

\* the input items that are deleted/removed or have no review text
ExcludedNames ==
    IF world.cmd \in FileCmds
    THEN {world.entries[k].name : k \in {m \in 1..Len(world.entries) :
             world.entries[m].size = 0}}
    ELSE IF world.cmd \in GitCmds
    THEN {files[k].filename : k \in {m \in 1..Len(files) :
             \/ files[m].status = "D"
             \/ (~Truthy(files[m].diff) /\ ~Truthy(files[m].content))}}
    ELSE IF world.cmd = "review_pr"
    THEN {world.pr_files[k].filename : k \in {m \in 1..Len(world.pr_files) :
             \/ world.pr_files[m].status = "removed"
             \/ ~Truthy(world.pr_files[m].patch)}}
    ELSE {}

\* C8: no review call and no result for an item that is deleted/removed or
\* has no review text, on any entry point.
C8_NoCallForDeletedOrEmpty ==
    /\ \A k \in 1..Len(calls) :
          IsReviewCall(calls[k]) =>
             /\ Truthy(calls[k].code)
             /\ calls[k].filename \notin ExcludedNames
    /\ \A k \in 1..Len(results) : results[k].filename \notin ExcludedNames

-----------------------------------------------------------------------------
(* Properties of the pattern matcher *)

\* C9: _should_include is true exactly when no exclude pattern matches the
\* filename and some include pattern does.
C9_ExcludeWinsIncludeRequired ==
    pc = "done" =>
       report = (/\ \A k \in 1..Len(config.exclude_patterns) :
                       ~fnmatch(world.filename, config.exclude_patterns[k])
                 /\ \E k \in 1..Len(config.include_patterns) :
                       fnmatch(world.filename, config.include_patterns[k]))

\* a filename that an include pattern and an exclude pattern both match,
\* rejected
C9_Witness ==
    /\ pc = "done"
    /\ report = FALSE
    /\ \E k \in 1..Len(config.include_patterns) :
          fnmatch(world.filename, config.include_patterns[k])
    /\ \E k \in 1..Len(config.exclude_patterns) :
          fnmatch(world.filename, config.exclude_patterns[k])

-----------------------------------------------------------------------------
(* Properties of the filesystem scanner *)

ScanOf(w, entries) ==
    IF w.cmd = "scan_files" THEN scan_files(config, entries)
    ELSE scan_directory(config, w.root_parts, entries, w.recursive)

InScan(scanned, e) ==
    \E k \in 1..Len(scanned) : scanned[k].path = <<e.dir, e.name>>

WithinCap(e) == e.size <= max_file_size

\* C10: a scan raises nothing; no file larger than max_file_size is in its
\* output; a file of exactly max_file_size is returned whenever the same
\* file, were it empty, would be; and the output is what the scan returns
\* for the tree without its oversized files.
C10_OversizedDroppedSilently ==
    pc = "scanned" =>
       /\ error = None
       /\ \A k \in 1..Len(files) : files[k].size <= max_file_size
       /\ \A k \in 1..Len(world.entries) :
             world.entries[k].size = max_file_size =>
                (InScan(files, world.entries[k])
                   <=> InScan(ScanOf(world, [world.entries EXCEPT ![k].size = 0]),
                              world.entries[k]))
       /\ files = ScanOf(world, SelectSeq(world.entries, WithinCap))

\* a scan of an oversized file and a file of exactly max_file_size, which is
\* returned
C10_Witness ==
    /\ pc = "scanned"
    /\ \E k \in 1..Len(world.entries) : world.entries[k].size > max_file_size
    /\ \E k \in 1..Len(world.entries) :
          /\ world.entries[k].size = max_file_size
          /\ InScan(files, world.entries[k])
    /\ Len(files) = 1

-----------------------------------------------------------------------------
(* Properties of the local sources *)

\* C11: every item a local source returns has a filename that
\* _should_include accepts under the active configuration.
C11_EveryItemPassesMatcher ==
    pc = "scanned" =>
       \A k \in 1..Len(files) : _should_include(config, files[k].relative_path)

-----------------------------------------------------------------------------
(* Properties of the entry points' failures *)

\* the run was started on a repo_path that is no repository root, or on a
\* pull request without the GitHub configuration
ConfigFailure ==
    \/ world.cmd \in GitCmds /\ ~world.repo_valid
    \/ world.cmd = "review_pr" /\ ~world.github

\* C12: a run with a configuration failure ends raising a ValueError whose
\* message names the repo_path (the GitHub configuration for review_pr),
\* with no review or summarization call made and no report.
C12_ConfigFailureRaisedFirst ==
    (pc # "start" /\ ConfigFailure) =>
       /\ pc = "raised"
       /\ error.type = "ValueError"
       /\ world.cmd \in GitCmds =>
             \E k \in 1..Len(error.message) : error.message[k] = world.repo_path
       /\ world.cmd = "review_pr" =>
             error.message = <<"GitHub configuration is required for PR review">>
       /\ calls = <<>>
       /\ results = <<>>
       /\ report = NoneObj

-----------------------------------------------------------------------------
(* Properties of the git change extractor *)

PassesFilter(t) == _should_include(config, t.name)

\* the run is review_git_changes on a repository whose only commit is HEAD,
\* with a base_ref that does not resolve
RootFallback ==
    /\ world.cmd = "review_git_changes" /\ world.repo_valid
    /\ ~world.base_resolves /\ world.head_is_root

\* C13: with an unresolvable base_ref on a repository of one root commit,
\* get_git_changes raises nothing and returns one change per tracked file
\* that passes the pattern filter, in order, each with status A.
C13_RootCommitAllAdded ==
    (RootFallback /\ pc # "start") =>
       /\ ~(pc = "raised" /\ calls = <<>>)
       /\ LET kept == SelectSeq(world.tracked, PassesFilter) IN
          /\ Len(files) = Len(kept)
          /\ \A k \in 1..Len(kept) :
                /\ files[k].filename = kept[k].name
                /\ files[k].status = "A"

\* three tracked files, one of which the patterns reject: two Added changes
C13_Witness ==
    /\ RootFallback /\ pc = "done"
    /\ Len(world.tracked) = 3
    /\ Len(files) = 2
    /\ files[1].status = "A" /\ files[2].status = "A"
    /\ report.reviewed_files = 2

\* the change returned for a filename, if any
ChangeOf(name) == CHOOSE c \in {files[j] : j \in 1..Len(files)} : c.filename = name
HasChange(name) == \E j \in 1..Len(files) : files[j].filename = name
HasReviewCall(name) ==
    \E j \in 1..Len(ReviewCallLog) : ReviewCallLog[j].filename = name

\* C14: get_staged_changes returns a file staged as new with status A and its
\* working-tree text as content, and a file staged for deletion with status D
\* and content None; once the loop is over the new file has had a review call
\* and the deleted file has had none.
C14_StagedNewAndDeleted ==
    (world.cmd = "review_staged" /\ world.repo_valid /\ pc # "start") =>
       \A k \in 1..Len(world.staged) :
          LET s == world.staged[k] IN
          /\ s.op = "new" =>
                /\ HasChange(s.name)
                /\ ChangeOf(s.name).status = "A"
                /\ ChangeOf(s.name).content = s.wt
                /\ (idx > Len(to_review) /\ Truthy(s.wt)) => HasReviewCall(s.name)
          /\ s.op = "deleted" =>
                /\ HasChange(s.name)
                /\ ChangeOf(s.name).status = "D"
                /\ ChangeOf(s.name).content = None
                /\ ~HasReviewCall(s.name)

-----------------------------------------------------------------------------
(* Properties of a run without reviewable items *)

\* the review loop was entered and none of its items is sent to review
NothingToReview == idx >= 1 /\ Dispatched = <<>>

\* C15 as stated: a run with no reviewable item is no error and returns a
\* report with no summary, no results and the three counters at zero.
C15_EmptyRunAllZero ==
    NothingToReview =>
       /\ pc # "raised"
       /\ pc = "done" =>
             report = ReviewReport(<<>>, None, 0, 0, 0)

\* C15 amended: a run with no reviewable item makes no review or
\* summarization call, is no error and returns a report with no summary, no
\* results and reviewed_files = 0; total_files is the number of items offered
\* to the run (deleted changes, changes without text and pull-request files
\* that are removed or have no patch included) and skipped_files the number
\* of non-deleted changes without diff and content; all three are zero when
\* no item was offered.
C15_EmptyRunAmended ==
    NothingToReview =>
       /\ pc # "raised"
       /\ ReviewCallLog = <<>> /\ SummarizeCallLog = <<>>
       /\ pc = "done" =>
             /\ report = ReviewReport(<<>>, None, Len(files), 0, UndispatchedChanges)
             /\ files = <<>> => report = ReviewReport(<<>>, None, 0, 0, 0)

\* a git run over a deleted change and a change without text
C15_Witness ==
    /\ pc = "done" /\ NothingToReview
    /\ world.cmd \in GitCmds
    /\ Len(files) = 2
    /\ files[1].status = "D"
    /\ report.total_files = 2
    /\ report.skipped_files = 1
    /\ report.summary = None

-----------------------------------------------------------------------------
(* Properties of the external calls *)

\* C16: the j-th review call is for the j-th dispatched item and has its
\* filename; it carries the item's diff (the patch of a pull-request file)
\* with diff_mode true when the diff is non-empty, and otherwise the item's
\* content with diff_mode false.
C16_ReviewCallArguments ==
    /\ Len(ReviewCallLog) <= Len(Dispatched)
    /\ \A j \in 1..Len(ReviewCallLog) :
          LET c == ReviewCallLog[j]
              item == Dispatched[j]
          IN /\ c.filename = ItemName(item)
             /\ world.cmd \in GitCmds =>
                   IF Truthy(item.diff)
                   THEN c.code = item.diff /\ c.diff_mode
                   ELSE c.code = item.content /\ ~c.diff_mode
             /\ world.cmd = "review_pr" => c.code = item.patch /\ c.diff_mode
             /\ world.cmd \in FileCmds => c.code = item.content /\ ~c.diff_mode

\* a git run that reviewed one change by its diff and one by its content
C16_Witness ==
    /\ pc = "done" /\ world.cmd \in GitCmds
    /\ Len(ReviewCallLog) = 2
    /\ ReviewCallLog[1].diff_mode /\ ReviewCallLog[1].code = "diff"
    /\ Dispatched[1].content = "code"
    /\ ~ReviewCallLog[2].diff_mode /\ ReviewCallLog[2].code = "code"

\* C17: the review calls of a run are one per dispatched item, in the order
\* of the items and without a second call for any item; there is at most one
\* summarization call, it comes after the review call of every dispatched
\* item and no review call comes after it; a returned report has had all its
\* review calls.
C17_CallOrder ==
    /\ Len(ReviewCallLog) <= Len(Dispatched)
    /\ \A j \in 1..Len(ReviewCallLog) :
          ReviewCallLog[j].filename = ItemName(Dispatched[j])
    /\ Len(SummarizeCallLog) <= 1
    /\ \A k \in 1..Len(calls) :
          IsSummarizeCall(calls[k]) =>
             /\ Cardinality({m \in 1..(k - 1) : IsReviewCall(calls[m])})
                   = Len(Dispatched)
             /\ \A m \in (k + 1)..Len(calls) : ~IsReviewCall(calls[m])
    /\ pc = "done" => Len(ReviewCallLog) = Len(Dispatched)

\* three review calls, in the order of the items, then the summarization
C17_Witness ==
    /\ Len(calls) = 4
    /\ IsReviewCall(calls[1]) /\ calls[1].filename = N_a_py
    /\ IsReviewCall(calls[2]) /\ calls[2].filename = N_b_py
    /\ IsReviewCall(calls[3]) /\ calls[3].filename = N_c_py
    /\ IsSummarizeCall(calls[4])

-----------------------------------------------------------------------------
(* Properties of the sources under filesystem failures *)

Readable(e) == e.readable
DiffPassesFilter(d) == _should_include(config, DiffFilename(d))

\* the scan a file run starts with, on the given entries
RunScanOf(entries) ==
    IF world.cmd = "review_files" THEN scan_files(config, entries)
    ELSE scan_directory(config, world.root_parts, entries, world.recursive)

\* the diff list a git run reads
RunDiffs ==
    IF world.cmd = "review_git_changes" THEN RangeDiffs(world)
    ELSE IndexDiffHead(world.staged)

\* C18: a scan raises nothing, leaves out the entries that cannot be read and
\* returns what it returns for the tree without them; a git extraction
\* raises nothing and returns one change per diff that passes the pattern
\* filter, with content None where the working-tree file cannot be read and
\* diff None where the patch cannot be decoded, and with the text that could
\* be read everywhere else.
C18_FilesystemFailureContained ==
    /\ (world.cmd \in FileCmds /\ pc # "start") =>
          /\ ~(pc = "raised" /\ calls = <<>>)
          /\ \A k \in 1..Len(world.entries) :
                ~world.entries[k].readable => ~InScan(files, world.entries[k])
          /\ files = RunScanOf(SelectSeq(world.entries, Readable))
    /\ (world.cmd \in GitCmds /\ world.repo_valid /\ pc # "start") =>
          /\ ~(pc = "raised" /\ calls = <<>>)
          /\ LET kept == SelectSeq(RunDiffs, DiffPassesFilter) IN
             /\ Len(files) = Len(kept)
             /\ \A k \in 1..Len(kept) :
                   /\ files[k].filename = DiffFilename(kept[k])
                   /\ kept[k].wt = None => files[k].content = None
                   /\ kept[k].diff = "undecodable" => files[k].diff = None
                   /\ (files[k].status # "D") => files[k].content = kept[k].wt
                   /\ (kept[k].diff \notin {"", "undecodable"}) =>
                         files[k].diff = kept[k].diff

\* a git extraction over a change whose file cannot be read, a change whose
\* patch cannot be decoded and a change read in full
C18_Witness ==
    /\ world.cmd = "review_git_changes" /\ world.base_resolves /\ pc = "done"
    /\ Len(files) = 3
    /\ world.diffs[1].wt = None /\ files[1].status = "M" /\ files[1].content = None
    /\ world.diffs[2].diff = "undecodable" /\ files[2].diff = None
    /\ files[3].diff = "diff" /\ files[3].content = "code"

-----------------------------------------------------------------------------
(* Properties of scan_directory *)

ImmediateChild(f) == f.path[1] = <<>>

\* C19: the non-recursive scan of a directory returns exactly the items of
\* its recursive scan that are immediate children of the directory.
C19_FlatIsRecursiveAtTopLevel ==
    (pc = "scanned" /\ world.cmd = "scan_directory") =>
       IF world.recursive
       THEN scan_directory(config, world.root_parts, world.entries, FALSE)
               = SelectSeq(files, ImmediateChild)
       ELSE files = SelectSeq(scan_directory(config, world.root_parts,
                                             world.entries, TRUE),
                              ImmediateChild)

\* a path component that scan_directory is to skip
HiddenOrDenied(part) == (part # <<>> /\ part[1] = ".") \/ part \in denylist

\* C20: no item of scan_directory has, in its directories below the scanned
\* directory or as its file name, a component that starts with '.' or is a
\* denylisted name; and the items are those of the scan that tests only the
\* components below the scanned directory.
C20_NoHiddenComponentBelowRoot ==
    (pc = "scanned" /\ world.cmd = "scan_directory") =>
       /\ \A k \in 1..Len(files) :
             LET below == files[k].path[1] \o <<files[k].path[2]>>
             IN \A j \in 1..Len(below) : ~HiddenOrDenied(below[j])
       /\ files = scan_directory(config, <<>>, world.entries, world.recursive)

-----------------------------------------------------------------------------
(* Properties of the classification of changes *)

C22_FallbackDiffsHeadRef ==
    (world.cmd = "review_git_changes" /\ world.repo_valid
        /\ ~world.base_resolves /\ pc # "start") =>
       LET kept == SelectSeq(world.ref_tracked, PassesFilter) IN
       /\ Len(files) = Len(kept)
       /\ \A k \in 1..Len(kept) :
             /\ files[k].filename = kept[k].name
             /\ files[k].status = "A"

-----------------------------------------------------------------------------
(* Properties of the progress display *)

\* the arguments of the review call for an item, from the item alone
ExpectedCode(item) ==
    IF world.cmd \in GitCmds
    THEN (IF Truthy(item.diff) THEN item.diff ELSE item.content)
    ELSE IF world.cmd = "review_pr" THEN item.patch
    ELSE item.content
ExpectedDiffMode(item) ==
    IF world.cmd \in GitCmds THEN Truthy(item.diff) ELSE world.cmd = "review_pr"
ExpectedContext == IF world.cmd = "review_pr" THEN PrContext ELSE None

\* C23: the review and summarization calls and the report of a run are
\* fixed by its items and by the outcomes of its calls, whatever
\* show_progress is: the j-th review call and the j-th result are those of
\* the j-th dispatched item and the call's outcome, the summarization call
\* is made exactly when there are results, over the Success results, and the
\* report holds the results, the outcome of the summarization, the number
\* of items offered and the counts of Success results and of Error results
\* plus changes without text.
C23_ProgressIsObserver ==
    /\ Len(ReviewCallLog) <= Len(Dispatched)
    /\ Len(results) = Len(ReviewCallLog)
    /\ \A j \in 1..Len(ReviewCallLog) :
          LET c == ReviewCallLog[j]
              item == Dispatched[j]
          IN /\ [c EXCEPT !.raised = FALSE, !.outcome = ""]
                   = ReviewCall(ExpectedCode(item), ItemName(item), ExpectedContext,
                                ExpectedDiffMode(item), [raised |-> FALSE, text |-> ""])
             /\ results[j] = ReviewResult(ItemName(item), c.outcome,
                                IF c.raised THEN "error" ELSE "success")
    /\ \A k \in 1..Len(SummarizeCallLog) :
          SummarizeCallLog[k].reviews = SuccessReviews(results)
    /\ pc = "done" =>
          /\ Len(ReviewCallLog) = Len(Dispatched)
          /\ Len(SummarizeCallLog) = (IF results = <<>> THEN 0 ELSE 1)
          /\ report = ReviewReport(results,
                         IF results = <<>> THEN None ELSE SummarizeCallLog[1].outcome,
                         Len(files), CountStatus(results, "success"),
                         CountStatus(results, "error") + UndispatchedChanges)

\* a finished run with the progress display over a reviewed change, a failed
\* one and one without text
C23_Witness ==
    /\ pc = "done" /\ world.show_progress /\ world.cmd \in GitCmds
    /\ progress = 3
    /\ UndispatchedChanges = 1
    /\ report.reviewed_files = 1
    /\ report.skipped_files = 2

-----------------------------------------------------------------------------
(* Properties of the commands of main.py *)

IsPostCall(c) == c.call = "create_review_comment"
PostCallLog == SelectSeq(calls, IsPostCall)
Printed(msg) == \E k \in 1..Len(console) : console[k].print = msg

\* C24: a pull-request run posts at most one comment, and only when
\* post_comment was asked for and the summary is non-empty; when the pr
\* command has printed "Review posted as PR comment", a comment was posted
\* in the run.
C24_CommentPostedAsReported ==
    /\ Len(PostCallLog) <= 1
    /\ PostCallLog # <<>> => world.post_comment /\ Truthy(summary)
    /\ Printed("Review posted as PR comment") =>
          \E k \in 1..Len(PostCallLog) : ~PostCallLog[k].raised

\* C25: the staged command prints "No staged changes to review" only for a
\* run without any ReviewResult; a run that returned results, failed ones
\* included, has its report printed.
C25_NoStagedChangesMessage ==
    world.cmd = "review_staged" =>
       /\ Printed("No staged changes to review") => results = <<>>
       /\ (pc = "exit" /\ report # NoneObj /\ results # <<>>) =>
             \E k \in 1..Len(console) : console[k] = PrintReport(report)

-----------------------------------------------------------------------------
(* scripts/review_pr.py: the GitHub Action entry script *)

code_extensions ==
    <<<<".", "p", "y">>, <<".", "j", "s">>, <<".", "t", "s">>,
      <<".", "j", "s", "x">>, <<".", "t", "s", "x">>, <<".", "j", "a", "v", "a">>,
      <<".", "g", "o">>, <<".", "r", "s">>, <<".", "c", "p", "p">>, <<".", "c">>,
      <<".", "h">>, <<".", "h", "p", "p">>, <<".", "r", "b">>, <<".", "p", "h", "p">>,
      <<".", "s", "w", "i", "f", "t">>, <<".", "k", "t">>,
      <<".", "s", "c", "a", "l", "a">>, <<".", "v", "u", "e">>,
      <<".", "s", "v", "e", "l", "t", "e">>, <<".", "c", "s">>, <<".", "m">>,
      <<".", "m", "m">>>>

\* str.endswith
EndsWith(s, suffix) ==
    /\ Len(suffix) <= Len(s)
    /\ SubSeq(s, Len(s) - Len(suffix) + 1, Len(s)) = suffix

\* str.strip for the blank " "
RECURSIVE Strip(_)
Strip(s) ==
    IF s = <<>> THEN s
    ELSE IF Head(s) = " " THEN Strip(Tail(s))
    ELSE IF s[Len(s)] = " " THEN Strip(SubSeq(s, 1, Len(s) - 1))
    ELSE s

should_review_file(filename, exclude_patterns) ==
    IF ~\E k \in 1..Len(code_extensions) : EndsWith(filename, code_extensions[k])
    THEN FALSE
    ELSE ~\E k \in 1..Len(exclude_patterns) :
             fnmatch(filename, Strip(exclude_patterns[k]))

\* [f for f in files if f.patch and should_review_file(f.filename, ...)]
RECURSIVE ScriptFilesToReview(_, _)
ScriptFilesToReview(pr_files, exclude_patterns) ==
    IF pr_files = <<>> THEN <<>>
    ELSE (IF Truthy(Head(pr_files).patch)
             /\ should_review_file(Head(pr_files).filename, exclude_patterns)
          THEN <<Head(pr_files)>> ELSE <<>>)
         \o ScriptFilesToReview(Tail(pr_files), exclude_patterns)

format_comment(reviews, sm, pr_title, reviewed_count, total_count) ==
    [pr_title |-> pr_title, files_reviewed |-> <<reviewed_count, total_count>>,
     summary |-> sm, details |-> reviews]

\* the files of the pull request, the filter, the early return
ScriptStart ==
    /\ pc = "start" /\ world.cmd = "review_pr.py"
    /\ files' = world.pr_files
    /\ to_review' = ScriptFilesToReview(files', world.exclude_patterns)
    /\ idx' = 1
    /\ IF to_review' = <<>>
       THEN /\ console' = Append(console, [print |-> "No code files to review"])
            /\ pc' = "done"
       ELSE /\ console' = console
            /\ pc' = "script_loop"
    /\ UNCHANGED <<config, world, results, reviewed, skipped, summary, report,
                   calls, progress, error>>

\* ScriptReviewFile keeping the failure's text as the review of the file
ScriptReviewFileKeepsFailed ==
    /\ pc = "script_loop" /\ idx <= Len(to_review)
    /\ LET f == to_review[idx] IN
       \E o \in ReviewOutcomes :
          /\ calls' = Append(calls, [call |-> "review_code", code |-> f.patch,
                                     filename |-> f.filename, raised |-> o.raised,
                                     outcome |-> o.text])
          /\ results' = Append(results, [filename |-> f.filename, feedback |-> o.text])
          /\ console' = console
    /\ idx' = idx + 1
    /\ UNCHANGED <<config, world, pc, files, to_review, reviewed, skipped,
                   summary, report, progress, error>>

\* one iteration of the loop over files_to_review
ScriptReviewFile ==
    /\ pc = "script_loop" /\ idx <= Len(to_review)
    /\ LET f == to_review[idx] IN
       \E o \in ReviewOutcomes :
          /\ calls' = Append(calls, [call |-> "review_code", code |-> f.patch,
                                     filename |-> f.filename, raised |-> o.raised,
                                     outcome |-> o.text])
          /\ IF ~o.raised
             THEN /\ results' = Append(results,
                                   [filename |-> f.filename, feedback |-> o.text])
                  /\ console' = console
             ELSE /\ results' = results
                  /\ console' = Append(console, [print |-> "Error reviewing",
                                                 filename |-> f.filename])
    /\ idx' = idx + 1
    /\ UNCHANGED <<config, world, pc, files, to_review, reviewed, skipped,
                   summary, report, progress, error>>

\* after the loop: the return without reviews, else the summary
ScriptSummarize ==
    /\ pc = "script_loop" /\ idx > Len(to_review)
    /\ IF results = <<>>
       THEN /\ console' = Append(console,
                             [print |-> "No files were successfully reviewed"])
            /\ pc' = "done"
            /\ UNCHANGED <<calls, summary, error>>
       ELSE \E o \in SummaryOutcomes :
               /\ calls' = Append(calls, SummarizeCall(results, o))
               /\ console' = console
               /\ IF o.raised
                  THEN /\ pc' = "raised"
                       /\ error' = o.text
                       /\ summary' = summary
                  ELSE /\ summary' = o.text
                       /\ pc' = "script_post"
                       /\ error' = error
    /\ UNCHANGED <<config, world, files, to_review, idx, results, reviewed,
                   skipped, report, progress>>

\* the comment: posted, or printed when POST_COMMENT is not true
ScriptPost ==
    /\ pc = "script_post"
    /\ LET comment_body == format_comment(results, summary, "title",
                                          Len(results), Len(files)) IN
       IF world.post_comment
       THEN \E o \in {[raised |-> FALSE, text |-> ""],
                      [raised |-> TRUE, text |-> "forbidden"]} :
               /\ calls' = Append(calls, [call |-> "create_issue_comment",
                                          body |-> comment_body,
                                          raised |-> o.raised])
               /\ IF o.raised
                  THEN /\ pc' = "raised"
                       /\ error' = o.text
                       /\ console' = console
                  ELSE /\ pc' = "done"
                       /\ error' = error
                       /\ console' = Append(console,
                                        [print |-> "Review comment posted successfully!"])
       ELSE /\ console' = Append(console, [print |-> "Review complete",
                                          body |-> comment_body])
            /\ pc' = "done"
            /\ UNCHANGED <<calls, error>>
    /\ UNCHANGED <<config, world, files, to_review, idx, results, reviewed,
                   skipped, summary, report, progress>>

\* the k-th file of the pull request: a code file, a file that is none, or
\* (first) a minified script; with or without patch
ScriptFileAt(k) ==
    {[filename |-> n, patch |-> p] :
        n \in {NameAt[k], TxtNameAt(k)} \cup (IF k = 1 THEN {N_a_min_js} ELSE {}),
        p \in {None, "patch"}}

\* EXCLUDE_PATTERNS split at ",": unset, or "*.lock, *.min.js"
ExcludePatternPool == {<<P_empty>>, <<P_lock, <<" ">> \o P_min_js>>}

InitScript ==
    /\ pc = "start"
    /\ config = ReviewConfig
    /\ \E post \in BOOLEAN, ex \in ExcludePatternPool,
          fs \in ListsOf(ScriptFileAt, MaxItems) :
          world = [cmd |-> "review_pr.py", post_comment |-> post,
                   exclude_patterns |-> ex, pr_files |-> fs]
    /\ Idle

NextScript == ScriptStart \/ ScriptReviewFile \/ ScriptSummarize \/ ScriptPost

SpecScript == InitScript /\ [][NextScript]_vars

IsIssueComment(c) == c.call = "create_issue_comment"
IssueCommentLog == SelectSeq(calls, IsIssueComment)
SucceededCalls == {k \in 1..Len(calls) : IsReviewCall(calls[k]) /\ ~calls[k].raised}

\* C26: in the Action script a file whose review call failed is not among
\* the reviews, and once the loop is over every file to review has had its
\* call; the summarization and the comment come at most once each and only
\* with at least one successful review, the summarization first; the posted
\* 'Files reviewed' is the number of successful reviews over the number of
\* changed files, the former not above the latter.
C26_ActionScript ==
    /\ \A k \in 1..Len(calls) :
          (IsReviewCall(calls[k]) /\ calls[k].raised) =>
             \A j \in 1..Len(results) : results[j].filename # calls[k].filename
    /\ Len(results) = Cardinality(SucceededCalls)
    /\ (pc # "start" /\ idx > Len(to_review)) =>
          \A k \in 1..Len(to_review) : HasReviewCall(to_review[k].filename)
    /\ Len(SummarizeCallLog) <= 1 /\ Len(IssueCommentLog) <= 1
    /\ \A k \in 1..Len(calls) :
          IsSummarizeCall(calls[k]) =>
             /\ SucceededCalls # {}
             /\ \A m \in 1..k : ~IsIssueComment(calls[m])
    /\ \A k \in 1..Len(calls) :
          IsIssueComment(calls[k]) =>
             /\ SucceededCalls # {}
             /\ \E m \in 1..(k - 1) : IsSummarizeCall(calls[m])
             /\ calls[k].body.files_reviewed
                   = <<Cardinality(SucceededCalls), Len(world.pr_files)>>
             /\ Cardinality(SucceededCalls) <= Len(world.pr_files)

\* a posted comment on three changed files: the first review failed, the
\* second succeeded, the third file was not a code file
C26_Witness ==
    /\ pc = "done"
    /\ Len(world.pr_files) = 3
    /\ Len(ReviewCallLog) = 2
    /\ ReviewCallLog[1].raised /\ ~ReviewCallLog[2].raised
    /\ Len(IssueCommentLog) = 1
    /\ IssueCommentLog[1].body.files_reviewed = <<1, 3>>

====
